---- MODULE Spec2Model ----
(***************************************************************************)
(* Model of the streaming generate-then-verify retry pipeline of           *)
(* backend/app.py (stream_query and its generator generate()) together     *)
(* with the two stages of backend/services/query_engine.py it drives       *)
(* (QueryEngine.stream_query and QueryEngine.verify_response).             *)
(*                                                                         *)
(* Numbers: a confidence is kept in hundredths (0.5 is 50, 0.95 is 95), a  *)
(* progress value is the integer the code computes.  A text is a sequence  *)
(* of fragment tokens, so that string concatenation is sequence            *)
(* concatenation.                                                          *)
(***************************************************************************)
EXTENDS Integers, Sequences, FiniteSets, TLC

VARIABLES
    use_mock,            \* QueryEngine.use_mock, fixed at process start
    files,               \* session_data['files']: the type of each file
    has_text,            \* whether the request body holds the key 'text'
    query,               \* the query text, by the mock template it selects
    pc,                  \* position of the request / of generate()
    http_status,         \* status code of the response (0: none yet)
    current_attempt,     \* generate(): current_attempt
    all_texts,           \* generate(): all_texts (one entry per document)
    base_progress,       \* generate(): base_progress
    response_text,       \* generate(): response_text
    chunk_count,         \* generate(): chunk_count
    gen_chunks,          \* chunks the generation stage has still to yield
    verification_result, \* generate(): verification_result
    events,              \* the messages yielded so far, in order
    gen_calls,           \* number of calls of query_engine.stream_query
    verify_calls,        \* number of calls of query_engine.verify_response
    verify_log,          \* the confidence returned by each verification
    gen_log,             \* what the generation service did in each call
    payload_log,         \* what the verification service replied in each call
    prepare_calls,       \* number of calls of QueryEngine._prepare_context
    documents,           \* _prepare_context: documents
    max_chars,           \* _prepare_context: max_chars
    context_parts,       \* _prepare_context: context_parts at the return
    ctx_pc,              \* position of the _prepare_context call
    redis_client,        \* whether the Redis client is set (else memory_storage)
    stored_files,        \* whether the stored session holds a file
    stored_queries,      \* the 'queries' list of the stored session
    requests,            \* the process_query requests: position and locals
    completed_ids,       \* ids of the records ever stored as completed
    streams,             \* the locals of each of the concurrent generators
    text,                \* chunk_text: text, a sequence of characters
    chunk_size,          \* chunk_text: chunk_size
    overlap,             \* chunk_text: overlap
    start,               \* chunk_text: start
    chunk_list,          \* chunk_text: chunks, each by the bounds of its slice
    chunk_pc,            \* position of the chunk_text call
    heap,                \* the session dicts in memory, by object identity
    stored,              \* the session store: session id to stored dict
    disk,                \* the files in the upload folder
    ops,                 \* the requests on the session store: position, locals
    uploaded_ok,         \* the uploads answered with success
    deleted_ok,          \* the deletions answered with success
    original_query,      \* swap_query: original_query, by its kind
    existing_queries,    \* swap_query: existing_queries, as a set
    swap_result,         \* swap_query: the question returned
    swap_status,         \* swap_query: status code of the response
    swap_pc              \* position of the swap_query request

\* The variables of a streaming request, and those of a _prepare_context call.
streamVars ==
    <<use_mock, files, has_text, query, pc, http_status, current_attempt,
      all_texts, base_progress, response_text, chunk_count, gen_chunks,
      verification_result, events, gen_calls, verify_calls, verify_log,
      gen_log, payload_log, prepare_calls>>
ctxVars == <<documents, max_chars, context_parts, ctx_pc>>
\* The variables of the session store and of the process_query requests.
sessionVars ==
    <<redis_client, stored_files, stored_queries, requests, completed_ids>>

\* The locals of the generators of the concurrent streaming requests.
concVars == <<streams>>

\* The variables of a chunk_text call.
chunkVars == <<text, chunk_size, overlap, start, chunk_list, chunk_pc>>
\* The variables of the session store under upload, delete, query and clear.
storeVars == <<heap, stored, disk, ops, uploaded_ok, deleted_ok>>

\* The variables of a swap_query request.
swapVars ==
    <<original_query, existing_queries, swap_result, swap_status, swap_pc>>

vars ==
    <<streamVars, ctxVars, sessionVars, concVars, chunkVars, storeVars, swapVars>>

(***************************************************************************)
(* Bounds of the model.                                                    *)
(***************************************************************************)
\* Largest number of text fragments one live generation call yields.
MaxChunks == 2
\* Number of concurrent process_query requests on the one session.
MaxRequests == 2

(***************************************************************************)
(* Program constants.                                                      *)
(***************************************************************************)
max_attempts == 3
\* The acceptance threshold 0.5, in hundredths.
Threshold == 50
\* Confidence of the fail-open result (0.8), of the default for a missing
\* field (0.9) and of the mock verification after attempt 1 (0.95).
FailOpenConfidence == 80
DefaultConfidence == 90
MockLaterConfidence == 95
\* Token of the fragment "No documents available to analyze."
NoDocsText == 0
\* Token of a corrected answer supplied by the verifier.
CorrectedText == -1

Min(a, b) == IF a < b THEN a ELSE b

(***************************************************************************)
(* Confidence values.  A verification payload is JSON, so its confidence   *)
(* is a number (possibly outside [0,1]), NaN, null or a string.            *)
(***************************************************************************)
Num(v) == [kind |-> "num", val |-> v]
NaN == [kind |-> "nan", val |-> 0]
Null == [kind |-> "null", val |-> 0]
Str == [kind |-> "str", val |-> 0]
NoConf == [kind |-> "absent", val |-> 0]

\* Python raises TypeError on `confidence > 0.5` for None and for a string.
Comparable(c) == c.kind \in {"num", "nan"}

\* `confidence > 0.5`: false for NaN.
AcceptGe(c) == c.kind = "num" /\ c.val >= Threshold
Accept(c) == c.kind = "num" /\ c.val > Threshold

CanRetryAlways(a) == a <= max_attempts
CanRetry(a) == a < max_attempts

\* current_attempt += 1
NextAttemptSkips(a) == a + 2
NextAttempt(a) == a + 1

\* 'attempts': current_attempt
AttemptsUsedZeroBased(a) == a - 1
AttemptsUsed(a) == a

(***************************************************************************)
(* Progress accounting.                                                    *)
(***************************************************************************)
BaseProgress(a) == 20 + ((a - 1) * 25)
FragmentProgressUncapped(base, count) == base + 10 + count
FragmentProgress(base, count) == Min(base + 10 + count, base + 50)

(***************************************************************************)
(* Generation stage: QueryEngine.stream_query yields chunks, each a dict.  *)
(***************************************************************************)
TextChunk(t) == [keys |-> {"text"}, text |-> t]
DoneChunk == [keys |-> {"done"}, text |-> 0]
ErrorChunk == [keys |-> {"error", "done"}, text |-> 0]
NoDocsChunk == [keys |-> {"text", "done"}, text |-> NoDocsText]
\* Not a chunk: the point where the generator raises instead of yielding.
RaisePoint == [keys |-> {"raise"}, text |-> 0]

\* Number of whitespace-separated words of _generate_mock_response; a stored
\* filename holds no whitespace (secure_filename), so it is one word.
MockWords(q, ndocs) ==
    CASE q.kind = "contract" -> 59 + Min(ndocs, 2)
      [] q.kind = "risk"     -> 54
      [] q.kind = "deadline" -> 49
      [] q.kind = "summary"  -> 48 + 2 * Min(ndocs, 3)
      [] OTHER               -> 66 + 2 * Min(ndocs, 3)
                                   + (IF q.words = 0 THEN 1 ELSE q.words)

\* Mock streaming: one chunk per word, then a done marker after the last.
\* _generate_mock_response calls query.lower(): a query that is no string
\* (the request body may hold any JSON value under 'text') raises.
MockChunks(q, docs) ==
    IF q.kind = "nonstring" THEN <<RaisePoint>>
    ELSE LET w == MockWords(q, Len(docs))
         IN  [i \in 1..(w + 1) |-> IF i <= w THEN TextChunk(i) ELSE DoneChunk]

\* Live streaming: n fragments, then the done marker, or the error marker
\* that the except clause yields when the service call or the stream fails.
LiveChunks(out) ==
    [i \in 1..(out.n + 1) |->
        IF i <= out.n THEN TextChunk(i)
        ELSE IF out.fails THEN ErrorChunk ELSE DoneChunk]

StreamQueryChunks(mock, q, docs, out) ==
    IF docs = <<>> THEN <<NoDocsChunk>>
    ELSE IF mock THEN MockChunks(q, docs)
    ELSE LiveChunks(out)

\* The stages read the document list they are handed (_prepare_context,
\* _generate_mock_response) and leave it as it is.
PreparedInPlace(docs) == [i \in 1..Len(docs) |-> [docs[i] EXCEPT !.content = 0]]
PreparedDocuments(docs) == docs

\* Calls of _prepare_context made by one stream_query call (none when the
\* document list is empty) and by one verify_response call (live mode only).
StreamQueryPrepares(docs) == IF docs = <<>> THEN 0 ELSE 1
VerifyPrepares(mock) == IF mock THEN 0 ELSE 1

\* What the external generation service can do in one call.
LiveOutcomes ==
    {[n |-> n, fails |-> FALSE] : n \in 0..MaxChunks}
      \cup {[n |-> n, fails |-> TRUE] : n \in {0, MaxChunks}}

(***************************************************************************)
(* Verification stage: QueryEngine.verify_response.                        *)
(***************************************************************************)
\* A reply of the verification service: the call raises, or it returns a
\* content that is a JSON value, bare or wrapped.
RaisePayload ==
    [call |-> "raise", wrap |-> "bare", json |-> "invalid", has_acc |-> FALSE,
     acc |-> TRUE, has_corr |-> FALSE, has_conf |-> FALSE, conf |-> NoConf]
\* Mock mode: the verification service is not called.
NoPayload == [RaisePayload EXCEPT !.call = "none"]
BadPayload(j) == [RaisePayload EXCEPT !.call = "ok", !.json = j]
ObjPayload(w, ha, a, hc, c) ==
    [call |-> "ok", wrap |-> w, json |-> "object", has_acc |-> ha, acc |-> a,
     has_corr |-> hc, has_conf |-> c # NoConf, conf |-> c]

\* The JSON value json.loads sees after the fence stripping: text around an
\* unfenced object is not stripped, so the parse fails.
Unwrapped(p) == IF p.wrap = "prose" THEN "invalid" ELSE p.json

FailClosed(response) ==
    [keys |-> {"is_accurate", "verified_text", "confidence", "error"},
     is_accurate |-> FALSE, verified_text |-> response, confidence |-> Num(0)]

FailOpen(response) ==
    [keys |-> {"is_accurate", "verified_text", "confidence", "error"},
     is_accurate |-> TRUE, verified_text |-> response,
     confidence |-> Num(FailOpenConfidence)]

MockVerify(response, attempt, rnd) ==
    LET confidence == IF attempt = 1 THEN rnd ELSE MockLaterConfidence
    IN  [keys |-> {"is_accurate", "verified_text", "confidence", "attempt"},
         is_accurate |-> confidence > Threshold, verified_text |-> response,
         confidence |-> Num(confidence)]

LiveVerifyFailOpenDefault(response, p) ==
    IF p.call = "raise" \/ Unwrapped(p) # "object" THEN FailOpen(response)
    ELSE [keys |-> {"is_accurate", "verified_text", "confidence"}
                     \cup (IF p.has_corr THEN {"corrected_answer"} ELSE {}),
          is_accurate |-> IF p.has_acc THEN p.acc ELSE TRUE,
          verified_text |-> IF p.has_corr THEN <<CorrectedText>> ELSE response,
          confidence |-> IF p.has_conf THEN p.conf ELSE Num(FailOpenConfidence)]

\* A parsed JSON object with its missing fields filled in.  A value that is
\* no object (or no JSON) raises inside the try block.
LiveVerify(response, p) ==
    IF p.call = "raise" \/ Unwrapped(p) # "object" THEN FailOpen(response)
    ELSE [keys |-> {"is_accurate", "verified_text", "confidence"}
                     \cup (IF p.has_corr THEN {"corrected_answer"} ELSE {}),
          is_accurate |-> IF p.has_acc THEN p.acc ELSE TRUE,
          verified_text |-> IF p.has_corr THEN <<CorrectedText>> ELSE response,
          confidence |-> IF p.has_conf THEN p.conf ELSE Num(DefaultConfidence)]

VerifyResponse(mock, response, attempt, rnd, p) ==
    IF mock THEN MockVerify(response, attempt, rnd) ELSE LiveVerify(response, p)

\* random.uniform(0.3, 1.0), in hundredths.
MockConfidences == {30, 50, 51, 100}

LivePayloads ==
    {RaisePayload, BadPayload("invalid"), BadPayload("array")}
      \cup {ObjPayload("bare", FALSE, TRUE, FALSE, c) :
              c \in {Num(-10), Num(50), Num(51), Num(150), NaN, Null, Str, NoConf}}
      \cup {ObjPayload("fence_json", TRUE, FALSE, TRUE, c) : c \in {Num(30), Num(95)}}
      \cup {ObjPayload(w, TRUE, TRUE, FALSE, Num(100)) : w \in {"fence_plain", "prose"}}

NoResult ==
    [keys |-> {}, is_accurate |-> FALSE, verified_text |-> <<>>, confidence |-> NoConf]

(***************************************************************************)
(* The messages generate() yields.  keys is the set of keys of the JSON    *)
(* object; a field outside keys is absent from the message.                *)
(***************************************************************************)
Blank ==
    [keys |-> {}, progress |-> 0, status |-> "", message |-> "", shown |-> NoConf,
     attempt |-> <<0, 0>>, text |-> 0, done |-> FALSE, final_text |-> <<>>,
     confidence |-> NoConf, is_verified |-> FALSE, attempts |-> 0,
     retry_available |-> FALSE, error |-> ""]

StatusKeys == {"progress", "status", "message", "attempt"}

AnalyzingMsg(a) ==
    [Blank EXCEPT !.keys = StatusKeys, !.progress = 10,
                  !.status = "analyzing_documents",
                  !.message = "Analyzing documents", !.attempt = <<a, max_attempts>>]

GeneratingMsg(a, base) ==
    [Blank EXCEPT !.keys = StatusKeys, !.progress = base + 10,
                  !.status = "generating",
                  !.message = "Generating response", !.attempt = <<a, max_attempts>>]

FragmentMsgWithDone(a, t, p) ==
    [Blank EXCEPT !.keys = {"text", "progress", "attempt", "done"}, !.text = t,
                  !.progress = p, !.attempt = <<a, max_attempts>>, !.done = TRUE]

FragmentMsg(a, t, p) ==
    [Blank EXCEPT !.keys = {"text", "progress", "attempt"}, !.text = t,
                  !.progress = p, !.attempt = <<a, max_attempts>>]

VerifyingMsg(a, base) ==
    [Blank EXCEPT !.keys = StatusKeys, !.progress = base + 60,
                  !.status = "verifying",
                  !.message = "Verifying accuracy", !.attempt = <<a, max_attempts>>]

CompletedMsgReportsAccuracy(a, vr, response) ==
    [Blank EXCEPT !.keys = {"progress", "status", "done", "final_text",
                            "confidence", "is_verified", "attempts", "attempt"},
                  !.progress = 100, !.status = "completed", !.done = TRUE,
                  !.final_text = IF "verified_text" \in vr.keys
                                 THEN vr.verified_text ELSE response,
                  !.confidence = vr.confidence, !.is_verified = vr.is_accurate,
                  !.attempts = AttemptsUsed(a), !.attempt = <<a, max_attempts>>]

CompletedMsgCandidate(a, vr, response) ==
    [Blank EXCEPT !.keys = {"progress", "status", "done", "final_text",
                            "confidence", "is_verified", "attempts", "attempt"},
                  !.progress = 100, !.status = "completed", !.done = TRUE,
                  !.final_text = response,
                  !.confidence = vr.confidence, !.is_verified = TRUE,
                  !.attempts = AttemptsUsed(a), !.attempt = <<a, max_attempts>>]

\* final_text is verification_result.get('verified_text', response_text);
\* verify_response always sets verified_text.
CompletedMsg(a, vr, response) ==
    [Blank EXCEPT !.keys = {"progress", "status", "done", "final_text",
                            "confidence", "is_verified", "attempts", "attempt"},
                  !.progress = 100, !.status = "completed", !.done = TRUE,
                  !.final_text = IF "verified_text" \in vr.keys
                                 THEN vr.verified_text ELSE response,
                  !.confidence = vr.confidence, !.is_verified = TRUE,
                  !.attempts = AttemptsUsed(a), !.attempt = <<a, max_attempts>>]

\* The message shows the confidence as a percentage ({confidence:.0%}).
RetryingMsg(a, base, c) ==
    [Blank EXCEPT !.keys = StatusKeys, !.progress = base + 70,
                  !.status = "retrying", !.message = "Low confidence",
                  !.shown = c, !.attempt = <<a, max_attempts>>]

ApologyText == <<-2>>

FailedMsgAtRetryProgress(a, c) ==
    [Blank EXCEPT !.keys = {"progress", "status", "done", "final_text",
                            "confidence", "is_verified", "attempts", "attempt",
                            "retry_available"},
                  !.progress = BaseProgress(a) + 70, !.status = "failed",
                  !.done = TRUE, !.final_text = ApologyText, !.confidence = c,
                  !.is_verified = FALSE, !.attempts = a,
                  !.attempt = <<a, max_attempts>>, !.retry_available = TRUE]

FailedMsg(a, c) ==
    [Blank EXCEPT !.keys = {"progress", "status", "done", "final_text",
                            "confidence", "is_verified", "attempts", "attempt",
                            "retry_available"},
                  !.progress = 100, !.status = "failed", !.done = TRUE,
                  !.final_text = ApologyText, !.confidence = c,
                  !.is_verified = FALSE, !.attempts = AttemptsUsed(a),
                  !.attempt = <<a, max_attempts>>, !.retry_available = TRUE]

ErrorMsgNotDone(e) ==
    [Blank EXCEPT !.keys = {"error"}, !.error = e]

ErrorMsg(e) ==
    [Blank EXCEPT !.keys = {"error", "done"}, !.error = e, !.done = TRUE]


(***************************************************************************)
(* The request handler stream_query and its generator generate().          *)
(***************************************************************************)
\* all_texts: one {filename, content} per file of type pdf, in order;
\* extract_pdf_text returns a non-empty string for every path.
RECURSIVE ExtractTexts(_, _)
ExtractTexts(fs, i) ==
    IF i > Len(fs) THEN <<>>
    ELSE (IF fs[i] = "pdf" THEN <<[filename |-> i, content |-> i]>> ELSE <<>>)
           \o ExtractTexts(fs, i + 1)

\* No process_query request is in the model.
SessionIdle ==
    /\ redis_client = FALSE
    /\ stored_files = FALSE
    /\ stored_queries = <<>>
    /\ requests = <<>>
    /\ completed_ids = {}

\* No concurrent streaming request is in the model.
ConcIdle == streams = <<>>

\* No chunk_text call is in the model.
ChunkIdle ==
    /\ text = <<>>
    /\ chunk_size = 0
    /\ overlap = 0
    /\ start = 0
    /\ chunk_list = <<>>
    /\ chunk_pc = "idle"

\* No swap_query request is in the model.
SwapIdle ==
    /\ original_query = ""
    /\ existing_queries = {}
    /\ swap_result = 0
    /\ swap_status = 0
    /\ swap_pc = "idle"

\* No request on the session store is in the model.
StoreIdle ==
    /\ heap = <<>>
    /\ stored = <<>>
    /\ disk = {}
    /\ ops = <<>>
    /\ uploaded_ok = {}
    /\ deleted_ok = {}

FileLists ==
    {<<>>, <<"document">>, <<"pdf">>, <<"pdf", "document", "pdf">>}

Queries ==
    {[kind |-> k, words |-> 1] : k \in {"contract", "risk", "deadline", "summary"}}
      \cup {[kind |-> "generic", words |-> 0], [kind |-> "nonstring", words |-> 0]}

\* In live mode the query text is passed to the services unread.
LiveQuery == [kind |-> "generic", words |-> 1]

\* In live mode the documents are passed to the services unread: only
\* whether there is one matters.
LiveFileLists == FileLists \ {<<"pdf">>}

Emit(m) == events' = Append(events, m)

Init ==
    /\ use_mock \in BOOLEAN
    /\ files \in (IF use_mock THEN FileLists ELSE LiveFileLists)
    /\ has_text \in BOOLEAN
    /\ query \in (IF use_mock THEN Queries ELSE {LiveQuery})
    /\ pc = "request"
    /\ http_status = 0
    /\ current_attempt = 0
    /\ all_texts = <<>>
    /\ base_progress = 0
    /\ response_text = <<>>
    /\ chunk_count = 0
    /\ gen_chunks = <<>>
    /\ verification_result = NoResult
    /\ events = <<>>
    /\ gen_calls = 0
    /\ verify_calls = 0
    /\ verify_log = <<>>
    /\ gen_log = <<>>
    /\ payload_log = <<>>
    /\ prepare_calls = 0
    /\ documents = <<>>
    /\ max_chars = 0
    /\ context_parts = <<>>
    /\ ctx_pc = "idle"
    /\ SessionIdle
    /\ ConcIdle
    /\ ChunkIdle
    /\ StoreIdle
    /\ SwapIdle

\* The two validation checks of stream_query that answer 400.
RejectsNoTextOnly(ht, fs) == ~ht
Rejects(ht, fs) == ~ht \/ fs = <<>>

\* stream_query up to the return of the Response: validation, then the
\* generator starts with current_attempt = 1.
StreamQuery ==
    /\ pc = "request"
    /\ IF Rejects(has_text, files)
       THEN /\ http_status' = 400
            /\ pc' = "rejected"
            /\ UNCHANGED current_attempt
       ELSE /\ http_status' = 200
            /\ pc' = "loop"
            /\ current_attempt' = 1
    /\ UNCHANGED <<use_mock, files, has_text, query, all_texts, base_progress,
                   response_text, chunk_count, gen_chunks, verification_result,
                   events, gen_calls, verify_calls, verify_log,
                   gen_log, payload_log, prepare_calls>>
    /\ UNCHANGED <<ctxVars, sessionVars, concVars, chunkVars, storeVars, swapVars>>

\* while current_attempt <= max_attempts: yield the analyzing message.
AttemptStart ==
    /\ pc = "loop"
    /\ IF current_attempt <= max_attempts
       THEN /\ Emit(AnalyzingMsg(current_attempt))
            /\ pc' = "extract"
       ELSE /\ pc' = "done"
            /\ UNCHANGED events
    /\ UNCHANGED <<use_mock, files, has_text, query, http_status, current_attempt,
                   all_texts, base_progress, response_text, chunk_count,
                   gen_chunks, verification_result, gen_calls, verify_calls,
                   verify_log,
                   gen_log, payload_log, prepare_calls>>
    /\ UNCHANGED <<ctxVars, sessionVars, concVars, chunkVars, storeVars, swapVars>>

\* Extraction on the first attempt only, then the generating message.
AnnounceGeneration ==
    /\ pc = "extract"
    /\ all_texts' = IF current_attempt = 1 THEN ExtractTexts(files, 1) ELSE all_texts
    /\ base_progress' = BaseProgress(current_attempt)
    /\ Emit(GeneratingMsg(current_attempt, BaseProgress(current_attempt)))
    /\ pc' = "generate"
    /\ UNCHANGED <<use_mock, files, has_text, query, http_status, current_attempt,
                   response_text, chunk_count, gen_chunks, verification_result,
                   gen_calls, verify_calls, verify_log,
                   gen_log, payload_log, prepare_calls>>
    /\ UNCHANGED <<ctxVars, sessionVars, concVars, chunkVars, storeVars, swapVars>>

\* response_text = "": the accumulator of an attempt starts empty.
CarriedResponse(previous) == previous
EmptyResponse(previous) == <<>>

\* response_text = "", chunk_count = 0, and the call of the generation stage.
CallGeneration ==
    /\ pc = "generate"
    /\ response_text' = EmptyResponse(response_text)
    /\ chunk_count' = 0
    /\ \E out \in (IF use_mock \/ all_texts = <<>>
                   THEN {[n |-> 0, fails |-> FALSE]} ELSE LiveOutcomes) :
          /\ gen_chunks' = StreamQueryChunks(use_mock, query, all_texts, out)
          /\ gen_log' = Append(gen_log, out)
    /\ gen_calls' = gen_calls + 1
    /\ prepare_calls' = prepare_calls + StreamQueryPrepares(all_texts)
    /\ all_texts' = PreparedDocuments(all_texts)
    /\ pc' = "streaming"
    /\ UNCHANGED <<use_mock, files, has_text, query, http_status, current_attempt,
                   base_progress, verification_result, events,
                   verify_calls, verify_log,
                   payload_log>>
    /\ UNCHANGED <<ctxVars, sessionVars, concVars, chunkVars, storeVars, swapVars>>

\* A chunk with a text: accumulate it and forward it as a fragment message.
ForwardFragment ==
    /\ pc = "streaming"
    /\ gen_chunks # <<>>
    /\ "text" \in Head(gen_chunks).keys
    /\ response_text' = Append(response_text, Head(gen_chunks).text)
    /\ chunk_count' = chunk_count + 1
    /\ Emit(FragmentMsg(current_attempt, Head(gen_chunks).text,
                        FragmentProgress(base_progress, chunk_count + 1)))
    /\ gen_chunks' = Tail(gen_chunks)
    /\ UNCHANGED <<use_mock, files, has_text, query, pc, http_status,
                   current_attempt, all_texts, base_progress,
                   verification_result, gen_calls, verify_calls, verify_log,
                   gen_log, payload_log, prepare_calls>>
    /\ UNCHANGED <<ctxVars, sessionVars, concVars, chunkVars, storeVars, swapVars>>

\* A chunk without a text (the done marker, the error marker) is dropped.
SkipChunk ==
    /\ pc = "streaming"
    /\ gen_chunks # <<>>
    /\ "text" \notin Head(gen_chunks).keys
    /\ "raise" \notin Head(gen_chunks).keys
    /\ gen_chunks' = Tail(gen_chunks)
    /\ UNCHANGED <<use_mock, files, has_text, query, pc, http_status,
                   current_attempt, all_texts, base_progress, response_text,
                   chunk_count, verification_result, events, gen_calls,
                   verify_calls, verify_log,
                   gen_log, payload_log, prepare_calls>>
    /\ UNCHANGED <<ctxVars, sessionVars, concVars, chunkVars, storeVars, swapVars>>

\* The generation stage is exhausted: the verifying message.
AnnounceVerification ==
    /\ pc = "streaming"
    /\ gen_chunks = <<>>
    /\ Emit(VerifyingMsg(current_attempt, base_progress))
    /\ pc' = "verify"
    /\ UNCHANGED <<use_mock, files, has_text, query, http_status, current_attempt,
                   all_texts, base_progress, response_text, chunk_count,
                   gen_chunks, verification_result, gen_calls, verify_calls,
                   verify_log,
                   gen_log, payload_log, prepare_calls>>
    /\ UNCHANGED <<ctxVars, sessionVars, concVars, chunkVars, storeVars, swapVars>>

\* verification_result = query_engine.verify_response(...)
Verify ==
    /\ pc = "verify"
    /\ \E rnd \in (IF use_mock /\ current_attempt = 1 THEN MockConfidences ELSE {0}),
          p \in (IF use_mock THEN {NoPayload} ELSE LivePayloads) :
          LET vr == VerifyResponse(use_mock, response_text, current_attempt, rnd, p)
          IN  /\ verification_result' = vr
              /\ verify_log' = Append(verify_log, vr.confidence)
              /\ payload_log' = Append(payload_log, p)
    /\ verify_calls' = verify_calls + 1
    /\ prepare_calls' = prepare_calls + VerifyPrepares(use_mock)
    /\ all_texts' = IF use_mock THEN all_texts ELSE PreparedDocuments(all_texts)
    /\ pc' = "decide"
    /\ UNCHANGED <<use_mock, files, has_text, query, http_status, current_attempt,
                   base_progress, response_text, chunk_count,
                   gen_chunks, events, gen_calls,
                   gen_log>>
    /\ UNCHANGED <<ctxVars, sessionVars, concVars, chunkVars, storeVars, swapVars>>

\* confidence > 0.5: the completed message, then return.
Complete ==
    /\ pc = "decide"
    /\ Comparable(verification_result.confidence)
    /\ Accept(verification_result.confidence)
    /\ Emit(CompletedMsg(current_attempt, verification_result, response_text))
    /\ pc' = "done"
    /\ UNCHANGED <<use_mock, files, has_text, query, http_status, current_attempt,
                   all_texts, base_progress, response_text, chunk_count,
                   gen_chunks, verification_result, gen_calls, verify_calls,
                   verify_log,
                   gen_log, payload_log, prepare_calls>>
    /\ UNCHANGED <<ctxVars, sessionVars, concVars, chunkVars, storeVars, swapVars>>

\* Low confidence below the last attempt: the retrying message, next attempt.
Retry ==
    /\ pc = "decide"
    /\ Comparable(verification_result.confidence)
    /\ ~Accept(verification_result.confidence)
    /\ CanRetry(current_attempt)
    /\ Emit(RetryingMsg(current_attempt, base_progress,
                        verification_result.confidence))
    /\ current_attempt' = NextAttempt(current_attempt)
    /\ pc' = "loop"
    /\ UNCHANGED <<use_mock, files, has_text, query, http_status, all_texts,
                   base_progress, response_text, chunk_count, gen_chunks,
                   verification_result, gen_calls, verify_calls, verify_log,
                   gen_log, payload_log, prepare_calls>>
    /\ UNCHANGED <<ctxVars, sessionVars, concVars, chunkVars, storeVars, swapVars>>

\* Low confidence on the last attempt: the failed message, then return.
Fail ==
    /\ pc = "decide"
    /\ Comparable(verification_result.confidence)
    /\ ~Accept(verification_result.confidence)
    /\ ~CanRetry(current_attempt)
    /\ Emit(FailedMsg(current_attempt, verification_result.confidence))
    /\ pc' = "done"
    /\ UNCHANGED <<use_mock, files, has_text, query, http_status, current_attempt,
                   all_texts, base_progress, response_text, chunk_count,
                   gen_chunks, verification_result, gen_calls, verify_calls,
                   verify_log,
                   gen_log, payload_log, prepare_calls>>
    /\ UNCHANGED <<ctxVars, sessionVars, concVars, chunkVars, storeVars, swapVars>>

\* The except clause of generate() yields the error message, then the
\* generator ends.  Raised inside the try block: the generation stage raising
\* while it is iterated, and `confidence > 0.5` raising TypeError for a
\* confidence that is no number.
HandleException ==
    /\ \/ /\ pc = "streaming"
          /\ gen_chunks # <<>>
          /\ "raise" \in Head(gen_chunks).keys
          /\ Emit(ErrorMsg("AttributeError"))
       \/ /\ pc = "decide"
          /\ ~Comparable(verification_result.confidence)
          /\ Emit(ErrorMsg("TypeError"))
    /\ pc' = "done"
    /\ UNCHANGED <<use_mock, files, has_text, query, http_status, current_attempt,
                   all_texts, base_progress, response_text, chunk_count,
                   gen_chunks, verification_result, gen_calls, verify_calls,
                   verify_log,
                   gen_log, payload_log, prepare_calls>>
    /\ UNCHANGED <<ctxVars, sessionVars, concVars, chunkVars, storeVars, swapVars>>

Next ==
    \/ StreamQuery
    \/ AttemptStart
    \/ AnnounceGeneration
    \/ CallGeneration
    \/ ForwardFragment
    \/ SkipChunk
    \/ AnnounceVerification
    \/ Verify
    \/ Complete
    \/ Retry
    \/ Fail
    \/ HandleException

Spec == Init /\ [][Next]_vars

\* generate() is driven by the server until it returns: every step that is
\* enabled is eventually taken.
FairSpec == Spec /\ WF_vars(Next)


(***************************************************************************)
(* The context assembler QueryEngine._prepare_context.  A string is kept   *)
(* by its length; a document is {filename, content}; the result is the     *)
(* list context_parts, one block per document taken: the header            *)
(* "Document: <filename>\n", a prefix of the content, and "\n---\n".       *)
(***************************************************************************)
\* Most documents in one call.
MaxDocs == 2

\* len("Document: ") + len("\n"), len("\n---\n"), and the default max_chars.
IntroOverhead == 11
SeparatorLen == 5
DefaultMaxChars == 8000

BlockLen(b) == b.intro + b.excerpt + b.sep

RECURSIVE SumLen(_)
SumLen(parts) ==
    IF parts = <<>> THEN 0 ELSE BlockLen(Head(parts)) + SumLen(Tail(parts))

\* One iteration of the loop over documents, from document i on, with
\* current_length = cur.
\* A variant that passes over a document whose header does not fit.
RECURSIVE PrepareSkipping(_, _, _, _, _)
PrepareSkipping(docs, i, limit, cur, parts) ==
    IF i > Len(docs) THEN parts
    ELSE LET doc_intro == IntroOverhead + docs[i].filename
             remaining_space == limit - cur - doc_intro
         IN  IF remaining_space <= 0
             THEN PrepareSkipping(docs, i + 1, limit, cur, parts)
             ELSE LET block == [doc |-> i, intro |-> doc_intro,
                                excerpt |-> Min(docs[i].content, remaining_space),
                                sep |-> SeparatorLen]
                      grown == cur + BlockLen(block)
                  IN  IF grown >= limit THEN Append(parts, block)
                      ELSE PrepareSkipping(docs, i + 1, limit, grown,
                                           Append(parts, block))

RECURSIVE PrepareFrom(_, _, _, _, _)
PrepareFrom(docs, i, limit, cur, parts) ==
    IF i > Len(docs) THEN parts
    ELSE LET doc_intro == IntroOverhead + docs[i].filename
             remaining_space == limit - cur - doc_intro
         IN  IF remaining_space <= 0 THEN parts
             ELSE LET block == [doc |-> i, intro |-> doc_intro,
                                excerpt |-> Min(docs[i].content, remaining_space),
                                sep |-> SeparatorLen]
                      grown == cur + BlockLen(block)
                  IN  IF grown >= limit THEN Append(parts, block)
                      ELSE PrepareFrom(docs, i + 1, limit, grown, Append(parts, block))

PrepareContext(docs, limit) == PrepareFrom(docs, 1, limit, 0, <<>>)

\* The inputs of the calls: filename and content lengths, and budgets, the
\* default one among them.
DocShapes ==
    {[filename |-> n, content |-> c] : n \in {1, 5}, c \in {0, 3, 100, 7984, 9000}}
DocLists == UNION {[1..k -> DocShapes] : k \in 0..MaxDocs}
BudgetValues == {0, 12, 14, 20, 40, DefaultMaxChars}

\* No streaming request is in the model.
StreamLocalsIdle ==
    /\ files = <<>>
    /\ has_text = FALSE
    /\ query = LiveQuery
    /\ pc = "idle"
    /\ http_status = 0
    /\ current_attempt = 0
    /\ all_texts = <<>>
    /\ base_progress = 0
    /\ response_text = <<>>
    /\ chunk_count = 0
    /\ gen_chunks = <<>>
    /\ verification_result = NoResult
    /\ events = <<>>
    /\ gen_calls = 0
    /\ verify_calls = 0
    /\ verify_log = <<>>
    /\ gen_log = <<>>
    /\ payload_log = <<>>
    /\ prepare_calls = 0

StreamIdle ==
    /\ use_mock = FALSE
    /\ StreamLocalsIdle

ContextInit ==
    /\ StreamIdle
    /\ SessionIdle
    /\ ConcIdle
    /\ ChunkIdle
    /\ StoreIdle
    /\ SwapIdle
    /\ documents \in DocLists
    /\ max_chars \in BudgetValues
    /\ context_parts = <<>>
    /\ ctx_pc = "call"

\* _prepare_context(documents, max_chars) runs to its return.
PrepareContextCall ==
    /\ ctx_pc = "call"
    /\ context_parts' = PrepareContext(documents, max_chars)
    /\ ctx_pc' = "return"
    /\ UNCHANGED <<documents, max_chars>>
    /\ UNCHANGED <<streamVars, sessionVars, concVars, chunkVars, storeVars, swapVars>>

ContextNext == PrepareContextCall

ContextSpec == ContextInit /\ [][ContextNext]_vars

(***************************************************************************)
(* The session store and the handler process_query.  A stored session is   *)
(* read with get_session_data and written as a whole with                  *)
(* save_session_data; each of the two is one access of the store.          *)
(***************************************************************************)
\* No _prepare_context call is in the model.
ContextIdle ==
    /\ documents = <<>>
    /\ max_chars = 0
    /\ context_parts = <<>>
    /\ ctx_pc = "idle"

RequestIds == 1..MaxRequests

\* With Redis get_session_data returns a fresh copy (json.loads); without
\* it memory_storage hands out the stored dict itself, so that the
\* session_data of a request is the stored session.
SessionData(r) ==
    IF redis_client THEN requests[r].session_data ELSE stored_queries

\* query_record, with the uuid of the request as its id.
QueryRecord(r) == [id |-> r, status |-> "processing"]

\* for query in session_data['queries']: if query['id'] == query_id: ...
MarkCompleted(qs, id) ==
    [i \in 1..Len(qs) |->
        IF qs[i].id = id THEN [qs[i] EXCEPT !.status = "completed"] ELSE qs[i]]

CompletedIn(qs) == {qs[i].id : i \in {j \in 1..Len(qs) : qs[j].status = "completed"}}

SessionInit ==
    /\ StreamIdle
    /\ ContextIdle
    /\ ConcIdle
    /\ ChunkIdle
    /\ StoreIdle
    /\ SwapIdle
    /\ redis_client \in BOOLEAN
    /\ stored_files \in BOOLEAN
    /\ stored_queries = <<>>
    /\ requests \in [RequestIds -> {[pc |-> "start", has_text |-> t,
                                     session_data |-> <<>>, status_code |-> 0] :
                                       t \in BOOLEAN}]
    /\ completed_ids = {}

\* process_query up to the validation: get_session_data, then the two checks.
ReceiveQuery(r) ==
    /\ requests[r].pc = "start"
    /\ requests' =
          [requests EXCEPT
              ![r].session_data = stored_queries,
              ![r].pc = IF Rejects(requests[r].has_text,
                                   IF stored_files THEN <<"pdf">> ELSE <<>>)
                        THEN "rejected" ELSE "fetched",
              ![r].status_code = IF Rejects(requests[r].has_text,
                                            IF stored_files THEN <<"pdf">> ELSE <<>>)
                                 THEN 400 ELSE 0]
    /\ UNCHANGED <<redis_client, stored_files, stored_queries, completed_ids>>
    /\ UNCHANGED <<streamVars, ctxVars, concVars, chunkVars, storeVars, swapVars>>

\* session_data['queries'].append(query_record); save_session_data(...)
AddRecord(r) ==
    /\ requests[r].pc = "fetched"
    /\ LET saved == Append(SessionData(r), QueryRecord(r))
       IN  /\ requests' = [requests EXCEPT ![r].session_data = saved,
                                           ![r].pc = "processing"]
           /\ stored_queries' = saved
           /\ completed_ids' = completed_ids \cup CompletedIn(saved)
    /\ UNCHANGED <<redis_client, stored_files>>
    /\ UNCHANGED <<streamVars, ctxVars, concVars, chunkVars, storeVars, swapVars>>

\* query_engine.process_query returns: the record is marked completed and
\* the session is saved; or it raises and the handler answers 500.
FinishQuery(r) ==
    /\ requests[r].pc = "processing"
    /\ \E returns \in BOOLEAN :
          IF returns
          THEN LET saved == MarkCompleted(SessionData(r), r)
               IN  /\ requests' = [requests EXCEPT ![r].session_data = saved,
                                                   ![r].pc = "done",
                                                   ![r].status_code = 200]
                   /\ stored_queries' = saved
                   /\ completed_ids' = completed_ids \cup CompletedIn(saved)
          ELSE /\ requests' = [requests EXCEPT ![r].pc = "error",
                                               ![r].status_code = 500]
               /\ UNCHANGED <<stored_queries, completed_ids>>
    /\ UNCHANGED <<redis_client, stored_files>>
    /\ UNCHANGED <<streamVars, ctxVars, concVars, chunkVars, storeVars, swapVars>>

SessionNext ==
    \E r \in RequestIds :
        \/ ReceiveQuery(r)
        \/ AddRecord(r)
        \/ FinishQuery(r)

SessionSpec == SessionInit /\ [][SessionNext]_vars

(***************************************************************************)
(* Concurrent streaming requests on one session.  The generators share the *)
(* module-level query_engine (its use_mock) and the files of the session;  *)
(* everything else is a local of generate(), one copy per generator.       *)
(***************************************************************************)
StreamIds == {1, 2}

ConcQueries(mock) ==
    IF mock THEN {[kind |-> "deadline", words |-> 1],
                  [kind |-> "nonstring", words |-> 0]}
    ELSE {LiveQuery}
ConcFileLists == {<<"document">>, <<"pdf">>}
ConcOutcomes == {[n |-> 1, fails |-> FALSE], [n |-> 0, fails |-> TRUE]}
ConcConfidences == {30, 100}
ConcPayloads ==
    {ObjPayload("bare", FALSE, TRUE, FALSE, c) : c \in {Num(50), Num(51), Null}}
      \cup {ObjPayload("bare", TRUE, FALSE, FALSE, Num(51))}
      \cup {ObjPayload("fence_json", TRUE, FALSE, TRUE, Num(95))}

\* response_text is a local of the generator that accumulates into it.
SharedAccumulator(ss, s) == ss[1].response_text
Accumulator(ss, s) == ss[s].response_text

\* The locals of a generator that has just been started.
StartedStream(q) ==
    [pc |-> "loop", query |-> q, current_attempt |-> 1, all_texts |-> <<>>,
     response_text |-> <<>>, chunk_count |-> 0, gen_chunks |-> <<>>,
     verification_result |-> NoResult, events |-> <<>>,
     gen_results |-> <<>>, verify_results |-> <<>>]

ConcInit ==
    /\ use_mock \in BOOLEAN
    /\ files \in ConcFileLists
    /\ streams \in [StreamIds -> {StartedStream(q) : q \in ConcQueries(use_mock)}]
    /\ has_text = TRUE
    /\ query = LiveQuery
    /\ pc = "idle"
    /\ http_status = 0
    /\ current_attempt = 0
    /\ all_texts = <<>>
    /\ base_progress = 0
    /\ response_text = <<>>
    /\ chunk_count = 0
    /\ gen_chunks = <<>>
    /\ verification_result = NoResult
    /\ events = <<>>
    /\ gen_calls = 0
    /\ verify_calls = 0
    /\ verify_log = <<>>
    /\ gen_log = <<>>
    /\ payload_log = <<>>
    /\ prepare_calls = 0
    /\ ContextIdle
    /\ SessionIdle
    /\ ChunkIdle
    /\ StoreIdle
    /\ SwapIdle

\* Nothing but the locals of the generators changes.
ConcFrame ==
    UNCHANGED <<use_mock, files, has_text, query, pc, http_status,
                current_attempt, all_texts, base_progress, response_text,
                chunk_count, gen_chunks, verification_result, events,
                gen_calls, verify_calls, verify_log, gen_log, payload_log,
                prepare_calls, ctxVars, sessionVars, chunkVars, storeVars, swapVars>>

\* The top of the while loop: the analyzing message.
StreamAttemptStart(s) ==
    /\ streams[s].pc = "loop"
    /\ streams' = [streams EXCEPT
          ![s].events = Append(@, AnalyzingMsg(streams[s].current_attempt)),
          ![s].pc = "extract"]
    /\ ConcFrame

\* Extraction on the first attempt only, then the generating message.
StreamAnnounceGeneration(s) ==
    /\ streams[s].pc = "extract"
    /\ streams' = [streams EXCEPT
          ![s].all_texts = IF streams[s].current_attempt = 1
                           THEN ExtractTexts(files, 1) ELSE @,
          ![s].events = Append(@, GeneratingMsg(streams[s].current_attempt,
                                   BaseProgress(streams[s].current_attempt))),
          ![s].pc = "generate"]
    /\ ConcFrame

\* response_text = "", chunk_count = 0, and the call of the generation stage.
StreamCallGeneration(s) ==
    /\ streams[s].pc = "generate"
    /\ \E out \in (IF use_mock \/ streams[s].all_texts = <<>>
                   THEN {[n |-> 0, fails |-> FALSE]} ELSE ConcOutcomes) :
          LET chunks == StreamQueryChunks(use_mock, streams[s].query,
                                          streams[s].all_texts, out)
          IN  streams' = [streams EXCEPT
                 ![s].response_text = EmptyResponse(@),
                 ![s].chunk_count = 0,
                 ![s].gen_chunks = chunks,
                 ![s].gen_results = Append(@, chunks),
                 ![s].pc = "streaming"]
    /\ ConcFrame

\* One iteration of the for loop over the chunks, or its end: the
\* verifying message.
StreamNextChunk(s) ==
    /\ streams[s].pc = "streaming"
    /\ LET l == streams[s]
           a == l.current_attempt
       IN  streams' =
             IF l.gen_chunks = <<>>
             THEN [streams EXCEPT
                     ![s].events = Append(@, VerifyingMsg(a, BaseProgress(a))),
                     ![s].pc = "verify"]
             ELSE IF "raise" \in Head(l.gen_chunks).keys
             THEN [streams EXCEPT
                     ![s].events = Append(@, ErrorMsg("AttributeError")),
                     ![s].pc = "done"]
             ELSE IF "text" \in Head(l.gen_chunks).keys
             THEN [streams EXCEPT
                     ![s].response_text =
                         Append(Accumulator(streams, s), Head(l.gen_chunks).text),
                     ![s].chunk_count = @ + 1,
                     ![s].events =
                         Append(@, FragmentMsg(a, Head(l.gen_chunks).text,
                                      FragmentProgress(BaseProgress(a),
                                                       l.chunk_count + 1))),
                     ![s].gen_chunks = Tail(@)]
             ELSE [streams EXCEPT ![s].gen_chunks = Tail(@)]
    /\ ConcFrame

\* verification_result = query_engine.verify_response(...)
StreamVerify(s) ==
    /\ streams[s].pc = "verify"
    /\ \E rnd \in (IF use_mock /\ streams[s].current_attempt = 1
                   THEN ConcConfidences ELSE {0}),
          p \in (IF use_mock THEN {NoPayload} ELSE ConcPayloads) :
          streams' = [streams EXCEPT
             ![s].verification_result =
                 VerifyResponse(use_mock, streams[s].response_text,
                                streams[s].current_attempt, rnd, p),
             ![s].verify_results = Append(@, [rnd |-> rnd, p |-> p]),
             ![s].pc = "decide"]
    /\ ConcFrame

\* The decision: completed, retrying, failed, or the error message of the
\* except clause when the comparison raises.
StreamDecide(s) ==
    /\ streams[s].pc = "decide"
    /\ LET l == streams[s]
           a == l.current_attempt
           vr == l.verification_result
       IN  streams' =
             IF ~Comparable(vr.confidence)
             THEN [streams EXCEPT ![s].events = Append(@, ErrorMsg("TypeError")),
                                  ![s].pc = "done"]
             ELSE IF Accept(vr.confidence)
             THEN [streams EXCEPT
                     ![s].events = Append(@, CompletedMsg(a, vr, l.response_text)),
                     ![s].pc = "done"]
             ELSE IF CanRetry(a)
             THEN [streams EXCEPT
                     ![s].events = Append(@, RetryingMsg(a, BaseProgress(a),
                                                         vr.confidence)),
                     ![s].current_attempt = NextAttempt(a),
                     ![s].pc = "loop"]
             ELSE [streams EXCEPT
                     ![s].events = Append(@, FailedMsg(a, vr.confidence)),
                     ![s].pc = "done"]
    /\ ConcFrame

ConcNext ==
    \E s \in StreamIds :
        \/ StreamAttemptStart(s)
        \/ StreamAnnounceGeneration(s)
        \/ StreamCallGeneration(s)
        \/ StreamNextChunk(s)
        \/ StreamVerify(s)
        \/ StreamDecide(s)

ConcSpec == ConcInit /\ [][ConcNext]_vars

(***************************************************************************)
(* DocumentProcessor.chunk_text.  The text is a sequence of characters;    *)
(* positions are those of the code, counted from 0.                        *)
(***************************************************************************)
\* Longest text, and longest list of chunks the model keeps.
MaxTextLen == 5
MaxChunkList == MaxTextLen + 2

Characters == {"x", ".", " "}
Texts == UNION {[1..n -> Characters] : n \in 0..MaxTextLen}
\* chunk_size > overlap >= 0
ChunkParameters ==
    {p \in (1..3) \X (0..2) : p[1] > p[2]}

Max(a, b) == IF a >= b THEN a ELSE b

\* An index of a slice or of a search, as Python reads it: a negative index
\* counts from the end, and the result is clipped to the string.
PyIndex(i, n) == IF i < 0 THEN Max(i + n, 0) ELSE Min(i, n)

\* text.rfind('. ', from, to): the highest position of '. ' inside the
\* slice, or -1.
RFindSentenceEnd(t, from, to) ==
    LET hits == {i \in PyIndex(from, Len(t))..(PyIndex(to, Len(t)) - 2) :
                    t[i + 1] = "." /\ t[i + 2] = " "}
    IN  IF hits = {} THEN -1 ELSE CHOOSE i \in hits : \A j \in hits : j <= i

\* text[from:to].strip() is not empty.
HasChunk(t, from, to) ==
    \E i \in PyIndex(from, Len(t))..(PyIndex(to, Len(t)) - 1) : t[i + 1] # " "

\* The end of the chunk that starts at s: s + chunk_size, moved back to the
\* last sentence end when the chunk does not reach the end of the text.
ChunkEnd(t, s, size) ==
    LET end == s + size
        sentence_end == RFindSentenceEnd(t, s, end)
    IN  IF end < Len(t) /\ sentence_end # -1 THEN sentence_end + 1 ELSE end

\* start = end - overlap if end < text_length else text_length
NextStart(t, end, ov) == IF end < Len(t) THEN end - ov ELSE Len(t)

ChunkInit ==
    /\ StreamIdle
    /\ ContextIdle
    /\ SessionIdle
    /\ ConcIdle
    /\ StoreIdle
    /\ SwapIdle
    /\ text \in Texts
    /\ \E p \in ChunkParameters : chunk_size = p[1] /\ overlap = p[2]
    /\ start = 0
    /\ chunk_list = <<>>
    /\ chunk_pc = "loop"

ChunkFrame ==
    UNCHANGED <<streamVars, ctxVars, sessionVars, concVars, storeVars, swapVars>>

\* One iteration of the while loop.  The list of chunks is kept up to
\* MaxChunkList entries.
ChunkIteration ==
    /\ chunk_pc = "loop"
    /\ start < Len(text)
    /\ LET end == ChunkEnd(text, start, chunk_size)
       IN  /\ chunk_list' =
                 IF HasChunk(text, start, end) /\ Len(chunk_list) < MaxChunkList
                 THEN Append(chunk_list, <<start, end>>) ELSE chunk_list
           /\ start' = NextStart(text, end, overlap)
    /\ UNCHANGED <<text, chunk_size, overlap, chunk_pc>>
    /\ ChunkFrame

\* The loop condition fails: return chunks.
ChunkReturn ==
    /\ chunk_pc = "loop"
    /\ start >= Len(text)
    /\ chunk_pc' = "return"
    /\ UNCHANGED <<text, chunk_size, overlap, start, chunk_list>>
    /\ ChunkFrame

ChunkNext == ChunkIteration \/ ChunkReturn

\* The call runs until it returns: an iteration that can be taken is taken.
ChunkSpec == ChunkInit /\ [][ChunkNext]_vars /\ WF_vars(ChunkNext)

(***************************************************************************)
(* The handler swap_query and QueryEngine.swap_query.  A question is kept  *)
(* by a number: 1 to 6 are the built-in replacements of the mock mode.     *)
(***************************************************************************)
replacements == 1..6
FallbackQuestion == 0
\* A question that is none of the built-in ones, and a generated one.
OtherQuestion == 6 + 1
GeneratedQuestion == 6 + 2
\* No question: the call raised.
Raised == -1

OriginalQueries == {"", "text", "nonstring"}
ExistingLists == SUBSET (replacements \cup {OtherQuestion})

\* [q for q in replacements if q not in existing_queries]
Candidates(existing) == replacements \ existing

\* random.choice(candidates): raises IndexError on an empty list.  The
\* fallback after `if new_query` is for a question that is the empty string.
MockSwapChoices(existing) ==
    IF Candidates(existing) = {} THEN {Raised} ELSE Candidates(existing)

SwapInit ==
    /\ use_mock \in BOOLEAN
    /\ StreamLocalsIdle
    /\ ContextIdle
    /\ SessionIdle
    /\ ConcIdle
    /\ ChunkIdle
    /\ StoreIdle
    /\ original_query \in OriginalQueries
    /\ existing_queries \in ExistingLists
    /\ swap_result = 0
    /\ swap_status = 0
    /\ swap_pc = "request"

\* The handler: 400 for a missing original query; else the engine, whose
\* exceptions the handler answers with 500.  The engine first evaluates
\* original_query.strip(), which raises for a value that is no string.
SwapQueryRequest ==
    /\ swap_pc = "request"
    /\ \E q \in (IF original_query = "" THEN {Raised}
                 ELSE IF original_query = "nonstring" THEN {Raised}
                 ELSE IF use_mock THEN MockSwapChoices(existing_queries)
                 ELSE {GeneratedQuestion, Raised}) :
          /\ swap_result' = q
          /\ swap_status' = IF original_query = "" THEN 400
                            ELSE IF q = Raised THEN 500 ELSE 200
    /\ swap_pc' = "return"
    /\ UNCHANGED <<original_query, existing_queries>>
    /\ UNCHANGED <<streamVars, ctxVars, sessionVars, concVars, chunkVars, storeVars>>

SwapNext == SwapQueryRequest

SwapSpec == SwapInit /\ [][SwapNext]_vars

(***************************************************************************)
(* The session store under upload_file, delete_file, process_query and     *)
(* clear_session.  A session dict is an object of the heap: with Redis     *)
(* get_session_data and save_session_data copy it (json.loads,             *)
(* json.dumps); without Redis memory_storage holds the dict itself, which  *)
(* the requests that read it then share.                                   *)
(***************************************************************************)
\* Number of concurrent requests on the store.
MaxOps == 2

SessionIds == {1, 2}
OpIds == 1..MaxOps

\* Each session starts with one uploaded file and one completed query.
InitialFile(sid) == 10 + sid
InitialQuery(sid) == 20 + sid
InitialSession(sid) ==
    [files |-> <<InitialFile(sid)>>,
     queries |-> <<[id |-> InitialQuery(sid), status |-> "completed"]>>]

\* {'files': [], 'queries': []}
EmptySession == [files |-> <<>>, queries |-> <<>>]

\* The key of a session in the store: f"session:{session_id}".
SharedKey(sid) == 1
SessionKey(sid) == sid

\* get_session_data: the heap after the call and the object it returns.
GetSessionData(h, st, sid) ==
    LET at == st[SessionKey(sid)]
    IN  IF redis_client
        THEN [heap |-> Append(h, IF at = 0 THEN EmptySession ELSE h[at]),
              ref |-> Len(h) + 1]
        ELSE IF at = 0 THEN [heap |-> Append(h, EmptySession), ref |-> Len(h) + 1]
        ELSE [heap |-> h, ref |-> at]

\* save_session_data: the heap and the store after the call.
SaveSessionData(h, st, sid, ref) ==
    IF redis_client
    THEN [heap |-> Append(h, h[ref]),
          stored |-> [st EXCEPT ![SessionKey(sid)] = Len(h) + 1]]
    ELSE [heap |-> h, stored |-> [st EXCEPT ![SessionKey(sid)] = ref]]

InList(fs, f) == \E k \in 1..Len(fs) : fs[k] = f
Remove(fs, f) == SelectSeq(fs, LAMBDA x : x # f)
Elements(fs) == {fs[k] : k \in 1..Len(fs)}

\* The files list of a request whose physical deletion raised: the entry is
\* removed only after file_handler.delete_file has returned.
RemovedBeforeDelete(fs, f) == Remove(fs, f)
AfterFailedDelete(fs, f) == fs

\* A file uploaded by request o has the id o.
OpShapes ==
    {[kind |-> k, session |-> sid, target |-> 0] :
        k \in {"upload", "query", "clear"}, sid \in SessionIds}
      \cup UNION {{[kind |-> "delete", session |-> sid, target |-> t] :
                      t \in {InitialFile(sid), 1}} : sid \in SessionIds}

StartedOp(shape) ==
    [kind |-> shape.kind, session |-> shape.session, target |-> shape.target,
     pc |-> "start", ref |-> 0, status_code |-> 0]

StoreInit ==
    /\ use_mock = FALSE
    /\ StreamLocalsIdle
    /\ ContextIdle
    /\ redis_client \in BOOLEAN
    /\ stored_files = FALSE
    /\ stored_queries = <<>>
    /\ requests = <<>>
    /\ completed_ids = {}
    /\ ConcIdle
    /\ ChunkIdle
    /\ SwapIdle
    /\ heap = [sid \in SessionIds |-> InitialSession(sid)]
    /\ stored = [sid \in SessionIds |-> sid]
    /\ disk = {InitialFile(sid) : sid \in SessionIds}
    /\ ops \in [OpIds -> {StartedOp(shape) : shape \in OpShapes}]
    /\ uploaded_ok = {}
    /\ deleted_ok = {}

StoreFrame ==
    UNCHANGED <<streamVars, ctxVars, sessionVars, concVars, chunkVars, swapVars>>

\* upload_file: the file is saved to the upload folder (or that raises and
\* the handler answers 500), then the session is read.
UploadStart(o) ==
    /\ ops[o].kind = "upload"
    /\ ops[o].pc = "start"
    /\ \E saved \in BOOLEAN :
          IF saved
          THEN LET got == GetSessionData(heap, stored, ops[o].session)
               IN  /\ disk' = disk \cup {o}
                   /\ heap' = got.heap
                   /\ ops' = [ops EXCEPT ![o].ref = got.ref, ![o].pc = "got"]
          ELSE /\ ops' = [ops EXCEPT ![o].status_code = 500, ![o].pc = "done"]
               /\ UNCHANGED <<disk, heap>>
    /\ UNCHANGED <<stored, uploaded_ok, deleted_ok>>
    /\ StoreFrame

\* session_data['files'].append(file_info); save_session_data(...)
UploadSave(o) ==
    /\ ops[o].kind = "upload"
    /\ ops[o].pc = "got"
    /\ LET ref == ops[o].ref
           appended == [heap EXCEPT ![ref].files = Append(@, o)]
           saved == SaveSessionData(appended, stored, ops[o].session, ref)
       IN  /\ heap' = saved.heap
           /\ stored' = saved.stored
    /\ uploaded_ok' = uploaded_ok \cup {<<ops[o].session, o>>}
    /\ ops' = [ops EXCEPT ![o].status_code = 200, ![o].pc = "done"]
    /\ UNCHANGED <<disk, deleted_ok>>
    /\ StoreFrame

\* delete_file: the session is read and the file looked up; 404 when it is
\* not in the list.
DeleteStart(o) ==
    /\ ops[o].kind = "delete"
    /\ ops[o].pc = "start"
    /\ LET got == GetSessionData(heap, stored, ops[o].session)
       IN  /\ heap' = got.heap
           /\ ops' = IF InList(got.heap[got.ref].files, ops[o].target)
                     THEN [ops EXCEPT ![o].ref = got.ref, ![o].pc = "found"]
                     ELSE [ops EXCEPT ![o].ref = got.ref, ![o].status_code = 404,
                                      ![o].pc = "done"]
    /\ UNCHANGED <<stored, disk, uploaded_ok, deleted_ok>>
    /\ StoreFrame

\* The try block of delete_file: the physical deletion, the removal of the
\* entry and the save; an exception is answered with 500.  list.remove
\* raises ValueError when the entry has left the list in the meantime.
DeleteFinish(o) ==
    /\ ops[o].kind = "delete"
    /\ ops[o].pc = "found"
    /\ \E deletion_raises \in BOOLEAN :
          LET ref == ops[o].ref
              f == ops[o].target
          IN  IF deletion_raises
              THEN /\ heap' = [heap EXCEPT ![ref].files = AfterFailedDelete(@, f)]
                   /\ ops' = [ops EXCEPT ![o].status_code = 500, ![o].pc = "done"]
                   /\ UNCHANGED <<stored, disk, deleted_ok>>
              ELSE IF ~InList(heap[ref].files, f)
              THEN /\ disk' = disk \ {f}
                   /\ ops' = [ops EXCEPT ![o].status_code = 500, ![o].pc = "done"]
                   /\ UNCHANGED <<heap, stored, deleted_ok>>
              ELSE LET removed == [heap EXCEPT ![ref].files = Remove(@, f)]
                       saved == SaveSessionData(removed, stored, ops[o].session, ref)
                   IN  /\ disk' = disk \ {f}
                       /\ heap' = saved.heap
                       /\ stored' = saved.stored
                       /\ deleted_ok' = deleted_ok \cup {<<ops[o].session, f>>}
                       /\ ops' = [ops EXCEPT ![o].status_code = 200,
                                             ![o].pc = "done"]
    /\ UNCHANGED uploaded_ok
    /\ StoreFrame

\* process_query: the session is read; 400 when it holds no file.
QueryStart(o) ==
    /\ ops[o].kind = "query"
    /\ ops[o].pc = "start"
    /\ LET got == GetSessionData(heap, stored, ops[o].session)
       IN  /\ heap' = got.heap
           /\ ops' = IF got.heap[got.ref].files = <<>>
                     THEN [ops EXCEPT ![o].ref = got.ref, ![o].status_code = 400,
                                      ![o].pc = "done"]
                     ELSE [ops EXCEPT ![o].ref = got.ref, ![o].pc = "got"]
    /\ UNCHANGED <<stored, disk, uploaded_ok, deleted_ok>>
    /\ StoreFrame

\* session_data['queries'].append(query_record); save_session_data(...)
QueryAdd(o) ==
    /\ ops[o].kind = "query"
    /\ ops[o].pc = "got"
    /\ LET ref == ops[o].ref
           appended == [heap EXCEPT ![ref].queries = Append(@, QueryRecord(o))]
           saved == SaveSessionData(appended, stored, ops[o].session, ref)
       IN  /\ heap' = saved.heap
           /\ stored' = saved.stored
    /\ ops' = [ops EXCEPT ![o].pc = "processing"]
    /\ UNCHANGED <<disk, uploaded_ok, deleted_ok>>
    /\ StoreFrame

\* The engine returns: the record is marked completed and the session is
\* saved; or it raises and the handler answers 500.
QueryFinish(o) ==
    /\ ops[o].kind = "query"
    /\ ops[o].pc = "processing"
    /\ \E returns \in BOOLEAN :
          IF returns
          THEN LET ref == ops[o].ref
                   marked == [heap EXCEPT ![ref].queries = MarkCompleted(@, o)]
                   saved == SaveSessionData(marked, stored, ops[o].session, ref)
               IN  /\ heap' = saved.heap
                   /\ stored' = saved.stored
                   /\ ops' = [ops EXCEPT ![o].status_code = 200, ![o].pc = "done"]
          ELSE /\ ops' = [ops EXCEPT ![o].status_code = 500, ![o].pc = "done"]
               /\ UNCHANGED <<heap, stored>>
    /\ UNCHANGED <<disk, uploaded_ok, deleted_ok>>
    /\ StoreFrame

\* clear_session: the session is read.
ClearStart(o) ==
    /\ ops[o].kind = "clear"
    /\ ops[o].pc = "start"
    /\ LET got == GetSessionData(heap, stored, ops[o].session)
       IN  /\ heap' = got.heap
           /\ ops' = [ops EXCEPT ![o].ref = got.ref, ![o].pc = "got"]
    /\ UNCHANGED <<stored, disk, uploaded_ok, deleted_ok>>
    /\ StoreFrame

\* The files of the session are deleted from the upload folder, and a new
\* empty session is saved.
ClearFinish(o) ==
    /\ ops[o].kind = "clear"
    /\ ops[o].pc = "got"
    /\ disk' = disk \ Elements(heap[ops[o].ref].files)
    /\ heap' = Append(heap, EmptySession)
    /\ stored' = [stored EXCEPT ![SessionKey(ops[o].session)] = Len(heap) + 1]
    /\ ops' = [ops EXCEPT ![o].status_code = 200, ![o].pc = "done"]
    /\ UNCHANGED <<uploaded_ok, deleted_ok>>
    /\ StoreFrame

StoreNext ==
    \E o \in OpIds :
        \/ UploadStart(o)
        \/ UploadSave(o)
        \/ DeleteStart(o)
        \/ DeleteFinish(o)
        \/ QueryStart(o)
        \/ QueryAdd(o)
        \/ QueryFinish(o)
        \/ ClearStart(o)
        \/ ClearFinish(o)

StoreSpec == StoreInit /\ [][StoreNext]_vars

\* The stored data of a session.
StoredOf(h, st, sid) == IF st[sid] = 0 THEN EmptySession ELSE h[st[sid]]

(***************************************************************************)
(* What generate() yields when it runs alone, as a function of its inputs  *)
(* and of the results the two services gave it so far.                     *)
(***************************************************************************)
\* The text chunks forwarded before the generator ends or raises.
RECURSIVE Forwarded(_)
Forwarded(chunks) ==
    IF chunks = <<>> \/ "raise" \in Head(chunks).keys THEN <<>>
    ELSE (IF "text" \in Head(chunks).keys THEN <<Head(chunks).text>> ELSE <<>>)
           \o Forwarded(Tail(chunks))

Raises(chunks) == \E i \in 1..Len(chunks) : "raise" \in chunks[i].keys

FragmentMsgs(a, texts) ==
    [k \in 1..Len(texts) |->
        FragmentMsg(a, texts[k], FragmentProgress(BaseProgress(a), k))]

RECURSIVE AloneFrom(_, _, _, _)
AloneFrom(mock, a, gl, vl) ==
    LET head == <<AnalyzingMsg(a), GeneratingMsg(a, BaseProgress(a))>>
    IN  IF Len(gl) < a THEN head
        ELSE LET candidate == Forwarded(gl[a])
                 sent == head \o FragmentMsgs(a, candidate)
             IN  IF Raises(gl[a]) THEN Append(sent, ErrorMsg("AttributeError"))
                 ELSE LET upto == Append(sent, VerifyingMsg(a, BaseProgress(a)))
                      IN  IF Len(vl) < a THEN upto
                          ELSE LET vr == VerifyResponse(mock, candidate, a,
                                                        vl[a].rnd, vl[a].p)
                               IN  IF ~Comparable(vr.confidence)
                                   THEN Append(upto, ErrorMsg("TypeError"))
                                   ELSE IF Accept(vr.confidence)
                                   THEN Append(upto, CompletedMsg(a, vr, candidate))
                                   ELSE IF CanRetry(a)
                                   THEN Append(upto, RetryingMsg(a, BaseProgress(a),
                                                                 vr.confidence))
                                          \o AloneFrom(mock, NextAttempt(a), gl, vl)
                                   ELSE Append(upto, FailedMsg(a, vr.confidence))

Alone(mock, l) == AloneFrom(mock, 1, l.gen_results, l.verify_results)

IsPrefix(p, q) == Len(p) <= Len(q) /\ SubSeq(q, 1, Len(p)) = p



\* C11 (as claimed): the string _prepare_context returns is never longer
\* than max_chars.
C11_ContextWithinBudget ==
    ctx_pc = "return" => SumLen(context_parts) <= max_chars


(***************************************************************************)
(* Vocabulary of the properties.                                           *)
(***************************************************************************)
Last == events[Len(events)]
StreamEnded == pc = "done"

IsError(m) == "error" \in m.keys
IsTerminal(m) == m.status \in {"completed", "failed"} \/ IsError(m)
IsFragment(m) == "text" \in m.keys /\ m.status = ""
IsProgressUpdate(m) ==
    m.status \in {"analyzing_documents", "generating", "verifying"}
IsRetryNotice(m) == m.status = "retrying"

\* A confidence above one half, and one at or below it, as numbers.
ExceedsHalf(c) == c.kind = "num" /\ c.val > 50
AtMostHalf(c) == c.kind = "num" /\ c.val <= 50
InUnitInterval(c) == c.kind = "num" /\ 0 <= c.val /\ c.val <= 100

\* C1: a stream that has run to its end holds exactly one terminal message
\* (completed, failed or error), that message is its last one, and every
\* message before it is a progress update, a text fragment or a retry
\* notice; a stream still running holds no terminal message.
C1_ExactlyOneTerminalLast ==
    /\ StreamEnded => (Len(events) >= 1 /\ IsTerminal(Last))
    /\ \A i \in 1..Len(events) :
          IF IsTerminal(events[i])
          THEN i = Len(events) /\ StreamEnded
          ELSE IsProgressUpdate(events[i]) \/ IsFragment(events[i])
                 \/ IsRetryNotice(events[i])

C1_Witness ==
    /\ StreamEnded
    /\ Last.status = "completed"
    /\ current_attempt = 2
    /\ \E i \in 1..Len(events) : IsFragment(events[i])

\* C2: a stream that ends with completed or failed ends with completed and
\* is_verified = true exactly when the confidence of the last verification
\* is strictly above 0.5; a completed message comes in the first attempt
\* whose confidence exceeds 0.5, and no generation or verification call is
\* made beyond that attempt.
C2_CompletedIffConfident ==
    (StreamEnded /\ Last.status \in {"completed", "failed"}) =>
        /\ verify_log # <<>>
        /\ (Last.status = "completed" /\ Last.is_verified)
              <=> ExceedsHalf(verify_log[Len(verify_log)])
        /\ \A j \in 1..(Len(verify_log) - 1) : ~ExceedsHalf(verify_log[j])
        /\ Last.attempts = Len(verify_log)
        /\ gen_calls = Last.attempts
        /\ verify_calls = Last.attempts

C2_Witness ==
    /\ StreamEnded
    /\ Last.status = "completed"
    /\ Len(verify_log) = 2
    /\ verify_log[1] = Num(50)

C4_RetryStep ==
    (pc = "decide" /\ AtMostHalf(verification_result.confidence)
       /\ current_attempt < 3) =>
        /\ IsRetryNotice(Last')
        /\ Len(events') = Len(events) + 1
        /\ Last'.attempt[1] = current_attempt
        /\ current_attempt' = current_attempt + 1
        /\ pc' = "loop"

C4_RetryLog ==
    \A i \in 1..Len(events) :
        IsRetryNotice(events[i]) =>
            /\ \A k \in 1..Len(events) :
                  (IsRetryNotice(events[k])
                     /\ events[k].attempt = events[i].attempt) => k = i
            /\ \A k \in 1..Len(events) :
                  (IsTerminal(events[k]) /\ ~IsError(events[k]))
                     => events[k].attempt # events[i].attempt
            /\ i < Len(events) =>
                  /\ events[i + 1].status = "analyzing_documents"
                  /\ events[i + 1].attempt[1] = events[i].attempt[1] + 1
            /\ i + 1 < Len(events) =>
                  /\ events[i + 2].status = "generating"
                  /\ events[i + 2].attempt[1] = events[i].attempt[1] + 1

C4_RetryThenNextAttempt == [][C4_RetryStep]_vars /\ []C4_RetryLog

C4_Witness ==
    /\ Len(events) >= 2
    /\ \E i \in 1..(Len(events) - 2) :
          /\ IsRetryNotice(events[i])
          /\ events[i].attempt[1] = 2
          /\ events[i + 2].status = "generating"

\* C5: every stream reaches its terminal message, with at most three calls of
\* the generation stage and at most three calls of the verification stage.
C5_Terminates ==
    /\ [](gen_calls <= 3 /\ verify_calls <= 3)
    /\ (pc = "loop") ~> (StreamEnded /\ IsTerminal(Last))

C5_Witness ==
    StreamEnded /\ IsTerminal(Last) /\ gen_calls = 3 /\ verify_calls = 3

\* C6: the attempts number a terminal message reports is between 1 and 3.
C6_AttemptsInRange ==
    \A i \in 1..Len(events) :
        "attempts" \in events[i].keys =>
            /\ IsTerminal(events[i])
            /\ 1 <= events[i].attempts
            /\ events[i].attempts <= 3

C6_Witness ==
    /\ StreamEnded
    /\ "attempts" \in Last.keys
    /\ Last.attempts = 3
    /\ Last.status = "completed"

C8_ProgressInRange ==
    \A i \in 1..Len(events) :
        "progress" \in events[i].keys =>
            (0 <= events[i].progress /\ events[i].progress <= 100)

\* C9 (as claimed): within one attempt the progress values of successive
\* messages never decrease.
C9_ProgressMonotoneInAttempt ==
    \A i \in 1..(Len(events) - 1) :
        ("progress" \in events[i].keys /\ "progress" \in events[i + 1].keys
           /\ events[i].attempt = events[i + 1].attempt)
            => events[i].progress <= events[i + 1].progress

\* C10 (as claimed): the terminal message of every stream carries progress
\* 100, the error message of the exception handler included.
C10_TerminalProgressAlways100 ==
    StreamEnded => ("progress" \in Last.keys /\ Last.progress = 100)

\* C10 (amended): a completed or failed terminal message carries progress
\* 100; the error message of the exception handler carries no progress.
C10_TerminalProgress ==
    \A i \in 1..Len(events) :
        /\ events[i].status \in {"completed", "failed"} =>
              ("progress" \in events[i].keys /\ events[i].progress = 100)
        /\ IsError(events[i]) => "progress" \notin events[i].keys

C10_Witness ==
    /\ StreamEnded
    /\ IsError(Last)
    /\ \E i \in 1..Len(events) : events[i].status = "retrying"


(***************************************************************************)
(* Generation failure, verification failure, exceptions, ordering and      *)
(* request validation.                                                     *)
(***************************************************************************)
\* The verification call raised, or its reply cannot be parsed as JSON.
VerificationFailed(p) ==
    p.call = "raise" \/ (p.call = "ok" /\ (p.json = "invalid" \/ p.wrap = "prose"))

\* A reply that parses to a JSON object.
WellFormedObject(p) == p.call = "ok" /\ p.json = "object" /\ p.wrap # "prose"

\* A failed call or a malformed payload: no JSON, no object, or an object
\* whose confidence is missing, null or no number.
Malformed(p) ==
    \/ VerificationFailed(p)
    \/ (p.call = "ok" /\ p.json # "object")
    \/ (WellFormedObject(p) /\ (~p.has_conf \/ p.conf.kind \in {"null", "str"}))

\* C12 (as claimed): once a live generation call has failed, the stream ends
\* with the error message at once: no verifying message and no verification
\* call for that attempt, no retrying message and no further attempt.
C12_GenerationFailureEndsStream ==
    \A k \in 1..Len(gen_log) :
        gen_log[k].fails =>
            /\ gen_calls = k
            /\ verify_calls < k
            /\ \A i \in 1..Len(events) :
                  events[i].attempt[1] = k
                     => events[i].status \notin {"verifying", "retrying"}
            /\ StreamEnded => IsError(Last)

\* C13: in live mode, when the verification call of attempt 1 raises or its
\* reply cannot be parsed, verification returns accurate = true, the
\* candidate answer as verified text and confidence 0.8, and the stream ends
\* completed with is_verified = true and attempts = 1.
C13_FailOpenCompletesAtOne ==
    (payload_log # <<>> /\ VerificationFailed(payload_log[1])) =>
        /\ verify_log[1] = Num(80)
        /\ current_attempt = 1
        /\ pc \in {"decide", "done"}
        /\ verification_result.is_accurate = TRUE
        /\ verification_result.verified_text = response_text
        /\ verification_result.confidence = Num(80)
        /\ StreamEnded =>
              /\ Last.status = "completed"
              /\ Last.is_verified = TRUE
              /\ Last.attempts = 1
              /\ Last.confidence = Num(80)
              /\ Last.final_text = response_text

C13_Witness ==
    /\ StreamEnded
    /\ payload_log # <<>>
    /\ payload_log[1].call = "raise"
    /\ Last.status = "completed"
    /\ response_text # <<>>

C16_MockAlwaysCompletes ==
    use_mock =>
        /\ \A i \in 1..Len(events) : events[i].status # "failed"
        /\ StreamEnded => (Last.status = "completed" /\ Last.attempts <= 2)

\* C17 (as claimed): when no document is extracted, the stream is one failed
\* message saying that there are no documents, and neither the generation
\* stage nor the verification stage is called.
C17_NoDocumentsShortCircuit ==
    (StreamEnded /\ all_texts = <<>>) =>
        /\ Len(events) = 1
        /\ Last.status = "failed"
        /\ gen_calls = 0
        /\ verify_calls = 0

\* An exception is about to be raised inside the try block of generate().
ExceptionRaised ==
    \/ (pc = "streaming" /\ gen_chunks # <<>> /\ Head(gen_chunks) = RaisePoint)
    \/ (pc = "decide" /\ verification_result.confidence.kind \in {"null", "str"})

C18_CaughtStep ==
    ExceptionRaised =>
        /\ Len(events') = Len(events) + 1
        /\ IsError(Last')
        /\ "done" \in Last'.keys
        /\ Last'.done = TRUE
        /\ pc' = "done"

C18_ErrorIsLast ==
    /\ \A i \in 1..Len(events) :
          IsError(events[i]) =>
              (i = Len(events) /\ StreamEnded /\ events[i].done = TRUE
                 /\ "done" \in events[i].keys)
    /\ StreamEnded => (events # <<>> /\ IsTerminal(Last))

\* C18: an exception raised inside the attempt loop is caught by the one
\* handler, which yields an error message with done = true; no message
\* follows it, and no stream ends without a terminal message.
C18_ExceptionBecomesTerminal == [][C18_CaughtStep]_vars /\ []C18_ErrorIsLast

C18_Witness ==
    /\ StreamEnded
    /\ IsError(Last)
    /\ Last.error = "TypeError"
    /\ current_attempt = 2

\* The message that may follow message m in the order the claim gives.
FollowsInOrder(m, n) ==
    CASE m.status = "analyzing_documents" ->
            n.status = "generating" /\ n.attempt = m.attempt
      [] m.status = "generating" \/ IsFragment(m) ->
            (IsFragment(n) \/ n.status = "verifying") /\ n.attempt = m.attempt
      [] m.status = "verifying" ->
            n.status \in {"completed", "retrying", "failed"}
               /\ n.attempt = m.attempt
      [] m.status = "retrying" ->
            n.status = "analyzing_documents"
               /\ n.attempt[1] = m.attempt[1] + 1
      [] OTHER -> FALSE

\* The error message cuts an attempt short: it follows the generating or the
\* verifying message.
ErrorCutsShort(m, n) ==
    IsError(n) /\ m.status \in {"generating", "verifying"}

FirstIsAttemptOne ==
    events # <<>> =>
        (events[1].status = "analyzing_documents" /\ events[1].attempt[1] = 1)

C20_ValidationShortCircuit ==
    (~has_text \/ files = <<>>) =>
        /\ pc \in {"request", "rejected"}
        /\ pc = "rejected" => http_status = 400
        /\ events = <<>>
        /\ all_texts = <<>>
        /\ gen_calls = 0
        /\ verify_calls = 0
        /\ prepare_calls = 0

C20_Witness ==
    pc = "rejected" /\ has_text /\ files = <<>> /\ http_status = 400


(***************************************************************************)
(* Context reuse, state sequence, progress accounting, candidate answer    *)
(* and attempt index.                                                      *)
(***************************************************************************)
\* C21 (as claimed): over all the attempts of one stream the context
\* assembler _prepare_context is called at most once, and attempts 2 and 3
\* call it no more.
C21_ContextAssembledOnce == prepare_calls <= 1

\* C24 (as claimed): a stream holds exactly one analyzing_documents message,
\* and the message that follows a retrying message is a generating message.
C24_AnalyzingOncePerRequest ==
    /\ Cardinality({i \in 1..Len(events) :
                       events[i].status = "analyzing_documents"}) <= 1
    /\ StreamEnded =>
          \E i \in 1..Len(events) : events[i].status = "analyzing_documents"
    /\ \A i \in 1..(Len(events) - 1) :
          events[i].status = "retrying" => events[i + 1].status = "generating"

\* Number of fragment messages of attempt a among the first i messages.
FragmentOrdinal(a, i) ==
    Cardinality({j \in 1..i : IsFragment(events[j]) /\ events[j].attempt[1] = a})

\* C25: with base = 20 + (attempt - 1) * 25, the analyzing message carries
\* 10, the generating message base + 10, the k-th fragment of the attempt
\* min(base + 10 + k, base + 50), the verifying message base + 60, a
\* retrying message base + 70, and a completed or failed message 100.
C25_ProgressAccounting ==
    \A i \in 1..Len(events) :
        LET m == events[i]
            a == m.attempt[1]
            base == 20 + ((a - 1) * 25)
        IN  /\ m.status = "analyzing_documents" => m.progress = 10
            /\ m.status = "generating" => m.progress = base + 10
            /\ IsFragment(m) =>
                  /\ m.progress = Min(base + 10 + FragmentOrdinal(a, i), base + 50)
                  /\ m.progress > base + 10
                  /\ m.progress <= base + 50
            /\ m.status = "verifying" => m.progress = base + 60
            /\ m.status = "retrying" => m.progress = base + 70
            /\ m.status \in {"completed", "failed"} => m.progress = 100

C25_Witness ==
    /\ StreamEnded
    /\ Last.status = "completed"
    /\ \E i \in 1..Len(events) :
          /\ IsFragment(events[i])
          /\ events[i].attempt[1] = 2
          /\ FragmentOrdinal(2, i) > 40
          /\ events[i].progress = 95

\* C26: the result of _prepare_context is one block per document of a
\* prefix of the document list, in the order of the list; a block is the
\* header of its document, a prefix of its content and the separator; only
\* the last block is truncated; a block is added only while the budget is
\* not exhausted, and the fill stops early only when it is.
C26_GreedyOrderPreservingFill ==
    ctx_pc = "return" =>
        /\ Len(context_parts) <= Len(documents)
        /\ \A i \in 1..Len(context_parts) :
              /\ context_parts[i].doc = i
              /\ context_parts[i].intro = IntroOverhead + documents[i].filename
              /\ context_parts[i].excerpt <= documents[i].content
              /\ context_parts[i].sep = SeparatorLen
              /\ i < Len(context_parts) =>
                    context_parts[i].excerpt = documents[i].content
              /\ SumLen(SubSeq(context_parts, 1, i - 1)) + context_parts[i].intro
                    < max_chars
        /\ Len(context_parts) < Len(documents) =>
              SumLen(context_parts) + IntroOverhead
                 + documents[Len(context_parts) + 1].filename >= max_chars

C26_Witness ==
    /\ ctx_pc = "return"
    /\ Len(documents) = 2
    /\ Len(context_parts) = 2
    /\ context_parts[2].excerpt < documents[2].content
    /\ context_parts[2].excerpt > 0

\* The texts of the fragment messages of attempt a, in order.
RECURSIVE FragmentsOf(_, _)
FragmentsOf(a, i) ==
    IF i = 0 THEN <<>>
    ELSE FragmentsOf(a, i - 1)
           \o (IF IsFragment(events[i]) /\ events[i].attempt[1] = a
               THEN <<events[i].text>> ELSE <<>>)

\* C27: the candidate answer handed to verify_response in an attempt is the
\* concatenation, in order, of the texts of the fragment messages of that
\* attempt, and of no earlier attempt.
C27_CandidateIsAttemptFragments ==
    /\ pc \in {"verify", "decide"} =>
          response_text = FragmentsOf(current_attempt, Len(events))
    /\ (pc = "decide" /\ use_mock) =>
          verification_result.verified_text
             = FragmentsOf(current_attempt, Len(events))

C27_Witness ==
    /\ pc = "decide"
    /\ use_mock
    /\ current_attempt = 2
    /\ response_text # <<>>
    /\ FragmentsOf(1, Len(events)) # <<>>

C29_AttemptIndexSteps ==
    /\ events # <<>> => events[1].attempt[1] = 1
    /\ pc \notin {"request", "rejected"} => current_attempt \in 1..max_attempts
    /\ \A i \in 1..Len(events) :
          ~IsError(events[i]) =>
              /\ events[i].attempt[1] \in 1..max_attempts
              /\ events[i].attempt[2] = max_attempts
              /\ i > 1 =>
                    \/ events[i].attempt[1] = events[i - 1].attempt[1]
                    \/ /\ events[i].attempt[1] = events[i - 1].attempt[1] + 1
                       /\ events[i - 1].status = "retrying"

C29_Witness ==
    /\ StreamEnded
    /\ Last.status = "failed"
    /\ Last.attempt[1] = 3
    /\ \E i \in 1..Len(events) :
          events[i].status = "retrying" /\ events[i].attempt[1] = 2

\* C30 (as claimed): when the reply holds a JSON object inside a fenced
\* block, with or without a language tag, or inside other text,
\* verify_response returns the fields of that object and not the fail-open
\* default.
C30_WrappedObjectExtracted ==
    (pc = "decide" /\ ~use_mock) =>
        LET p == payload_log[Len(payload_log)]
        IN  (p.call = "ok" /\ p.json = "object" /\ p.wrap # "bare") =>
                /\ "error" \notin verification_result.keys
                /\ p.has_conf => verification_result.confidence = p.conf
                /\ p.has_acc => verification_result.is_accurate = p.acc

\* C23 (as claimed): a stored query record has one of the four statuses,
\* and a record that was once stored as completed stays in the stored
\* session, completed, whatever the other query requests do.
C23_TerminalRecordsKept ==
    /\ \A i \in 1..Len(stored_queries) :
          stored_queries[i].status \in {"pending", "processing", "completed", "failed"}
    /\ \A id \in completed_ids :
          \E i \in 1..Len(stored_queries) :
              stored_queries[i].id = id /\ stored_queries[i].status = "completed"

\* A step changes the locals of one generator at most, and neither the
\* shared query engine nor the files of the session.
C22_OneStreamSteps ==
    /\ \E s \in StreamIds :
          \A t \in StreamIds \ {s} : streams'[t] = streams[t]
    /\ use_mock' = use_mock
    /\ files' = files

\* The messages of each stream are those generate() yields alone from the
\* results the services gave to that stream.
C22_AsAlone ==
    \A s \in DOMAIN streams :
        /\ IsPrefix(streams[s].events, Alone(use_mock, streams[s]))
        /\ streams[s].pc = "done" =>
              streams[s].events = Alone(use_mock, streams[s])

\* C22: concurrent streams are independent: a step of one generator writes
\* its own locals only, and under every interleaving of two streams each
\* stream yields the messages it yields alone with the same generation and
\* verification results.
C22_StreamsIndependent == [][C22_OneStreamSteps]_vars /\ []C22_AsAlone

C22_Witness ==
    /\ streams # <<>>
    /\ streams[1].pc = "done"
    /\ streams[2].pc = "done"
    /\ streams[1].current_attempt = 2
    /\ streams[2].current_attempt = 1
    /\ streams[1].response_text # <<>>
    /\ streams[1].events[Len(streams[1].events)].status = "completed"
    /\ streams[2].events[Len(streams[2].events)].status = "completed"


(***************************************************************************)
(* The done field, the document snapshot, the query record and the         *)
(* decision rule.                                                          *)
(***************************************************************************)
\* C31: a message carries the key done exactly when it is the completed,
\* the failed or the error message, which is the last message of an ended
\* stream; no status, fragment or retrying message carries it.
C31_DoneOnlyOnTerminal ==
    /\ \A i \in 1..Len(events) :
          /\ "done" \in events[i].keys
                <=> (events[i].status \in {"completed", "failed"}
                       \/ "error" \in events[i].keys)
          /\ "done" \in events[i].keys =>
                (events[i].done = TRUE /\ i = Len(events) /\ pc = "done")
    /\ pc = "done" => (events # <<>> /\ "done" \in Last.keys)

C31_Witness ==
    /\ pc = "done"
    /\ Last.status = "failed"
    /\ ~use_mock
    /\ \E k \in 1..Len(gen_log) : gen_log[k].fails
    /\ \E i \in 1..Len(events) : IsFragment(events[i])

C32_SnapshotStep == pc # "extract" => all_texts' = all_texts

C32_SnapshotHeld ==
    pc \in {"generate", "streaming", "verify", "decide"} =>
        all_texts = ExtractTexts(files, 1)

\* C32: the document list built on attempt 1 is changed by no later step,
\* neither by the generation stage nor by the verification stage nor by the
\* controller: the stages of every attempt are handed the same list.
C32_DocumentsReadOnly == [][C32_SnapshotStep]_vars /\ []C32_SnapshotHeld

C32_Witness ==
    /\ pc = "decide"
    /\ current_attempt = 3
    /\ ~use_mock
    /\ Len(all_texts) = 2

\* C33 (as claimed): a streaming request that is accepted has a query
\* record in the stored session, and when the stream ends completed or
\* failed the record has that status.
C33_StreamQueryRecord ==
    /\ pc \notin {"request", "rejected"} => stored_queries # <<>>
    /\ (pc = "done" /\ Last.status \in {"completed", "failed"}) =>
          \E i \in 1..Len(stored_queries) : stored_queries[i].status = Last.status

\* The verification results of two generators up to call k agree in
\* confidence and verified text.
SameButAccuracy(l1, l2) ==
    /\ l1.query = l2.query
    /\ l1.gen_results = l2.gen_results
    /\ Len(l1.verify_results) = Len(l2.verify_results)
    /\ \A k \in 1..Len(l1.verify_results) :
          LET v1 == VerifyResponse(use_mock, Forwarded(l1.gen_results[k]), k,
                                   l1.verify_results[k].rnd, l1.verify_results[k].p)
              v2 == VerifyResponse(use_mock, Forwarded(l2.gen_results[k]), k,
                                   l2.verify_results[k].rnd, l2.verify_results[k].p)
          IN  v1.confidence = v2.confidence /\ v1.verified_text = v2.verified_text

\* C37: two runs whose verification results agree in confidence and
\* verified text yield the same messages whatever is_accurate is, and a
\* completed message says is_verified = true also when is_accurate is false.
C37_DecisionIgnoresAccuracy ==
    \A s, t \in DOMAIN streams :
        /\ (streams[s].pc = "done" /\ streams[t].pc = "done"
              /\ SameButAccuracy(streams[s], streams[t]))
              => streams[s].events = streams[t].events
        /\ (streams[s].pc = "done"
              /\ streams[s].events[Len(streams[s].events)].status = "completed")
              => streams[s].events[Len(streams[s].events)].is_verified = TRUE

C37_Witness ==
    /\ streams # <<>>
    /\ streams[1].pc = "done"
    /\ streams[2].pc = "done"
    /\ SameButAccuracy(streams[1], streams[2])
    /\ streams[1].verification_result.is_accurate = FALSE
    /\ streams[2].verification_result.is_accurate = TRUE
    /\ streams[1].events[Len(streams[1].events)].status = "completed"
    /\ streams[1].current_attempt = 2

C35_StartIncreases == chunk_pc = "loop" => (chunk_pc' = "return" \/ start' > start)

\* C35 (as claimed): with chunk_size > overlap >= 0 chunk_text returns for
\* every text, and start grows in every iteration of its loop.
C35_ChunkTextTerminates == [][C35_StartIncreases]_vars /\ <>(chunk_pc = "return")

\* C36 (as claimed): in mock mode swap_query does not raise: it returns a
\* built-in replacement that is not in existing_queries, or the fallback
\* question when all six are.
C36_MockSwapNeverRaises ==
    (swap_pc = "return" /\ use_mock /\ original_query = "text") =>
        /\ swap_result # Raised
        /\ swap_status = 200
        /\ IF replacements \subseteq existing_queries
           THEN swap_result = FallbackQuestion
           ELSE swap_result \in replacements /\ swap_result \notin existing_queries

AllFinished == \A o \in DOMAIN ops : ops[o].pc = "done"

\* C34 (as claimed): when all upload, delete and query requests have
\* finished, the files of each session are the files uploaded with success
\* and not deleted with success, whatever the interleaving and the store.
C34_NoLostUpdate ==
    (ops # <<>> /\ AllFinished /\ \A o \in DOMAIN ops : ops[o].kind # "clear") =>
        \A sid \in SessionIds :
            Elements(StoredOf(heap, stored, sid).files)
               = ({InitialFile(sid)}
                     \cup {p[2] : p \in {q \in uploaded_ok : q[1] = sid}})
                    \ {p[2] : p \in {q \in deleted_ok : q[1] = sid}}

\* The step with which delete request o ends.
DeleteEnds(o, code) ==
    /\ ops[o].kind = "delete"
    /\ ops[o].pc # "done"
    /\ ops'[o].pc = "done"
    /\ ops'[o].status_code = code

C38_DeleteStep ==
    \A o \in DOMAIN ops :
        /\ (DeleteEnds(o, 404) \/ DeleteEnds(o, 500)) =>
              \A sid \in SessionIds :
                  StoredOf(heap', stored', sid) = StoredOf(heap, stored, sid)
        /\ DeleteEnds(o, 200) =>
              LET sid == ops[o].session
                  read == heap[ops[o].ref]
                  after == StoredOf(heap', stored', sid)
              IN  /\ InList(read.files, ops[o].target)
                  /\ Len(after.files) = Len(read.files) - 1
                  /\ after.files = Remove(read.files, ops[o].target)
                  /\ after.queries = read.queries
                  /\ \A other \in SessionIds \ {sid} :
                        StoredOf(heap', stored', other) = StoredOf(heap, stored, other)
                  /\ read = StoredOf(heap, stored, sid) =>
                        /\ after.files = Remove(StoredOf(heap, stored, sid).files,
                                                ops[o].target)
                        /\ after.queries = StoredOf(heap, stored, sid).queries

\* C38: delete_file leaves the stored session as it is when it answers 404
\* or 500; when it succeeds it removes the one entry of the file from the
\* session it read and leaves the other files and the queries as they were.
C38_DeleteFrame == [][C38_DeleteStep]_vars

C38_Witness ==
    /\ ops # <<>>
    /\ ops[1].kind = "delete"
    /\ ops[1].pc = "done"
    /\ ops[1].status_code = 500
    /\ ops[2].kind = "delete"
    /\ ops[2].pc = "done"
    /\ ops[2].status_code = 200
    /\ ops[1].session = ops[2].session
    /\ ~redis_client

C39_IsolatedStep ==
    \A o \in DOMAIN ops :
        ops'[o] # ops[o] =>
            /\ \A other \in SessionIds \ {ops[o].session} :
                  StoredOf(heap', stored', other) = StoredOf(heap, stored, other)
            /\ (ops[o].kind = "clear" /\ ops'[o].pc = "done") =>
                  StoredOf(heap', stored', ops[o].session) = EmptySession

\* C39: a request under one session id leaves the stored files and queries
\* of every other session unchanged, and clear_session leaves its own
\* session stored with no files and no queries.
C39_SessionsIsolated == [][C39_IsolatedStep]_vars

C39_Witness ==
    /\ ops # <<>>
    /\ AllFinished
    /\ ops[1].kind = "clear"
    /\ ops[1].session = 1
    /\ ops[2].kind = "upload"
    /\ ops[2].session = 2
    /\ ops[2].status_code = 200
    /\ StoredOf(heap, stored, 1) = EmptySession
    /\ StoredOf(heap, stored, 2).files = <<InitialFile(2), 2>>


====
